---- MODULE Spec2Model ----
(***************************************************************************)
(* Model of the multi-agent smart intent fusion pipeline of                *)
(* src/backend/backend.py: ma_smart_intent_fusion, its inner               *)
(* call_gemini_with_timeout (SIGALRM deadline around one external call)    *)
(* and the rule fallback mock_fusion.                                      *)
(*                                                                         *)
(* A candidate (adaptation) is a record whose domain is the set of keys    *)
(* present in the JSON object.  A string event_type is a sequence of its   *)
(* "_"-separated words, so that Python's substring test becomes a          *)
(* contiguous-subsequence test.                                            *)
(***************************************************************************)
EXTENDS Integers, Sequences, FiniteSets, TLC

VARIABLES
    event,                 \* the Event of the current run
    profile,               \* the profile snapshot of the current run
    history,               \* the history snapshot of the current run
    pc,                    \* position of the run in ma_smart_intent_fusion
    ipc,                   \* position inside call_gemini_with_timeout
    alarm,                 \* TRUE while a SIGALRM timer is armed (process wide)
    response,              \* response.text of the external call that returned
    ui_suggestions,
    geometry_suggestions,
    other_suggestions,
    all_adaptations,
    final_adaptations,
    result,                \* what the run handed to its caller
    outcome,               \* per agent: how its invoker call ended
    served,                \* per agent: the adaptations array that was decoded
    prompts,               \* the external calls issued in this run, in order
    sif_config,            \* the keys of the configuration loaded at import
    store,                 \* profiles_collection: user_id -> document, or none
    appended,              \* per user: the events pushed to the history so far
    wpc,                   \* position of websocket_adapt on the one connection
    received,              \* the events read from the connection, in order
    sent,                  \* the messages sent on the connection, in order
    hpc,                   \* position of process_event for the HTTP request
    reply,                 \* what the last HTTP request was answered with
    logfailed,             \* timestamps of the events whose log write failed
    lastop                 \* the last history append called on the store

vars == <<event, profile, history, pc, ipc, alarm, response, ui_suggestions,
          geometry_suggestions, other_suggestions, all_adaptations,
          final_adaptations, result, outcome, served, prompts, sif_config,
          store, appended, wpc, received, sent, hpc, reply, logfailed, lastop>>

\* the state of the endpoints and of the profile store
server_vars == <<store, appended, wpc, received, sent, hpc, reply, logfailed,
                lastop>>

\* the state of a run of ma_smart_intent_fusion apart from its arguments and
\* its result
run_vars == <<pc, ipc, alarm, response, ui_suggestions, geometry_suggestions,
              other_suggestions, all_adaptations, final_adaptations, outcome,
              served, prompts, sif_config>>

-----------------------------------------------------------------------------
(* Bounds of the model *)

MaxHistory == 1

\* history appends per user in the store model
MaxAppends == 22

\* events read from the one WebSocket connection
MaxEvents == 3

-----------------------------------------------------------------------------
(* Values *)

None == "None"

\* a local variable that has not been assigned yet
Unbound == <<[unbound |-> "local variable referenced before assignment"]>>

Agents == <<"ui", "geometry", "other">>

AgentNames == {Agents[i] : i \in 1..Len(Agents)}

AllAgents == AgentNames \cup {"validator"}

\* the key of sif_config that holds the prompt template of agent a
PromptKey(a) ==
    CASE a = "ui"        -> "ui_agent_prompt"
      [] a = "geometry"  -> "geometry_agent_prompt"
      [] a = "other"     -> "other_agent_prompt"
      [] a = "validator" -> "validator_prompt"

FullConfig == {PromptKey(a) : a \in AllAgents}

\* the configurations json.load accepts: any JSON object, with or without
\* each entry
Configs == {FullConfig, FullConfig \ {"validator_prompt"}, FullConfig \ {"other_agent_prompt"}}

EventTypes ==
    { <<"miss", "tap">>, <<"voice">>, <<"tap">>, <<"voice", "slider", "miss">> }

Targets == {"lamp", None}

Events == [event_type : EventTypes, target_element : Targets]

\* the JSON value stored under "accessibility_needs": an object, given by the
\* set of its flags that are true, or null (set_profile stores any JSON object
\* it is sent, load_profile hands it on unchecked)
JsonObject(flags) == [json |-> "object", flags |-> flags]

JsonNull == [json |-> "null"]

AccessibilityNeeds ==
    {JsonObject(f) : f \in SUBSET {"motor_impaired", "visual_impaired"}} \cup {JsonNull}

Profiles == [accessibility_needs : AccessibilityNeeds]

RECURSIVE SeqsUpTo(_, _)
SeqsUpTo(S, n) ==
    IF n = 0 THEN {<<>>}
    ELSE LET shorter == SeqsUpTo(S, n - 1)
         IN  shorter \cup {Append(s, x) : s \in {t \in shorter : Len(t) = n - 1}, x \in S}

Histories == SeqsUpTo({"past_event"}, MaxHistory)

\* candidates the reasoning service may put in a response
K1 == [action |-> "increase_contrast", target |-> "all", mode |-> "high",
       reason |-> "low vision", intent |-> "see better"]

K2 == [action |-> "increase_button_size", target |-> "lamp", value |-> "1.5",
       reason |-> "missed", intent |-> "hit lamp"]

\* violates oneOf(value, mode) of the response schema
B1 == [action |-> "switch_mode", target |-> "all", value |-> "1.0", mode |-> "voice",
       reason |-> "both", intent |-> "both"]

\* the "adaptations" arrays the service may return: empty, one candidate, and
\* two candidates of which the second breaks the schema
ResponseLists == { <<>>, <<K1>>, <<K2, B1>> }

\* response.text of a call that returned: a JSON object with an adaptations
\* array, a JSON object without that key, or text that is not JSON
ResponseTexts ==
    {[json |-> "object", adaptations |-> l] : l \in ResponseLists}
        \cup {[json |-> "object"], [json |-> "malformed"]}

NoResponse == [json |-> "none"]

NoResult == [status |-> "none"]

-----------------------------------------------------------------------------
(* mock_fusion *)

\* Python: sub in s
Contains(s, sub) ==
    \E i \in 0..(Len(s) - Len(sub)) : SubSeq(s, i + 1, i + Len(sub)) = sub

\* Python: x or default
OrElse(x, default) == IF x = None \/ x = "" THEN default ELSE x

\* what a run that an exception of type exc left hands its caller
Raised(exc) == [status |-> "raised", exc |-> exc]

\* profile.get("accessibility_needs", {}).get(flag): raises AttributeError
\* when the stored value is not an object
NeedsRaises(p) ==
    "accessibility_needs" \in DOMAIN p /\ p.accessibility_needs.json # "object"

Need(p, flag) ==
    "accessibility_needs" \in DOMAIN p /\ flag \in p.accessibility_needs.flags

\* stands for a call that ended by raising exc instead of returning a list
Throws(exc) == <<[throws |-> exc]>>

\* lines 53-60
MissTapRule(e) ==
    IF e.event_type = <<"miss", "tap">> \/ Contains(e.event_type, <<"slider", "miss">>)
    THEN << [action |-> "increase_button_size",
             target |-> OrElse(e.target_element, "all"),
             value  |-> "1.3",
             reason |-> "Miss-tap detected, increasing target size",
             intent |-> "User had difficulty hitting target"] >>
    ELSE <<>>

\* lines 63-70
MotorRule(p) ==
    IF Need(p, "motor_impaired")
    THEN << [action |-> "increase_button_size",
             target |-> "all",
             value  |-> "1.5",
             reason |-> "Motor impairment detected, enlarging all elements",
             intent |-> "Improve accessibility for motor difficulties"] >>
    ELSE <<>>

\* lines 73-80
VisualRule(p) ==
    IF Need(p, "visual_impaired")
    THEN << [action |-> "increase_contrast",
             target |-> "all",
             mode   |-> "high",
             reason |-> "Visual impairment detected, increasing contrast",
             intent |-> "Improve visibility for visual difficulties"] >>
    ELSE <<>>

\* a variant of IsVoice that looks for the word anywhere in the event type
IsVoiceAnywhere(e) == Contains(e.event_type, <<"voice">>)

\* line 83: event.event_type == "voice"
IsVoice(e) == e.event_type = <<"voice">>

\* lines 83-90
VoiceRule(e) ==
    IF IsVoice(e)
    THEN << [action |-> "switch_mode",
             target |-> "all",
             mode   |-> "voice",
             reason |-> "Voice input detected, switching to voice mode",
             intent |-> "User prefers voice interaction"] >>
    ELSE <<>>

\* a variant of mock_fusion that repeats the last rule for a user with a past
mock_fusion_with_history(e, p, h) ==
    IF NeedsRaises(p)
    THEN Throws("AttributeError")
    ELSE MissTapRule(e) \o MotorRule(p) \o VisualRule(p) \o VoiceRule(e)
             \o (IF h = <<>> THEN <<>> ELSE VoiceRule(e))

\* the list mock_fusion returns, or the exception it ends with: line 63 is
\* reached for every event
mock_fusion(e, p, h) ==
    IF NeedsRaises(p)
    THEN Throws("AttributeError")
    ELSE MissTapRule(e) \o MotorRule(p) \o VisualRule(p) \o VoiceRule(e)

-----------------------------------------------------------------------------
(* call_gemini_with_timeout *)

InvokerPcs == AllAgents

\* the prompt sent for agent a: the template's placeholders and what fills them
Prompt(a) ==
    IF a = "validator"
    THEN [agent                |-> a,
          ui_suggestions       |-> ui_suggestions,
          geometry_suggestions |-> geometry_suggestions,
          other_suggestions    |-> other_suggestions,
          event_json           |-> event,
          profile_json         |-> profile,
          history_json         |-> <<>>]
    ELSE [agent        |-> a,
          event_json   |-> event,
          profile_json |-> profile,
          history_json |-> history]

\* json.loads(response.text)["adaptations"] evaluates without raising
Decodes(text) == text.json = "object" /\ "adaptations" \in DOMAIN text

\* positions of call_gemini_with_timeout that lie inside its try block
InTry == {"call", "cancel"}

\* a variant of Extend that puts the newer list in front and keeps one copy
\* of a candidate already there
ExtendFrontUnique(all, s) ==
    s \o SelectSeq(all, LAMBDA c : \A i \in 1..Len(s) : s[i] # c)

\* all_adaptations after "if s: all_adaptations.extend(s)"
Extend(all, s) == IF s # <<>> THEN all \o s ELSE all

\* a variant of ValidatorDecision that adds the validator's list to the
\* aggregate instead of replacing it
ValidatorDecisionMerging(final, all) ==
    IF final # <<>>
    THEN [status |-> "returned", path |-> "final_adaptations", adaptations |-> all \o final]
    ELSE [status |-> "returned", path |-> "all_adaptations", adaptations |-> all]

\* what lines 220-235 return once the validator call is back
ValidatorDecision(final, all) ==
    IF final # <<>>
    THEN [status |-> "returned", path |-> "final_adaptations", adaptations |-> final]
    ELSE [status |-> "returned", path |-> "all_adaptations", adaptations |-> all]

\* line 239
FallbackDecision(e, p, h) ==
    IF mock_fusion(e, p, h) = Throws("AttributeError")
    THEN Raised("AttributeError")
    ELSE [status |-> "returned", path |-> "mock_fusion", adaptations |-> mock_fusion(e, p, h)]

\* call_gemini_with_timeout returns v to ma_smart_intent_fusion, which carries
\* on to its next call of the invoker
Return(v, how) ==
    /\ outcome' = [outcome EXCEPT ![pc] = how]
    /\ response' = NoResponse
    /\ CASE pc = "ui" ->
              /\ ui_suggestions' = v
              /\ all_adaptations' = Extend(all_adaptations, v)
              /\ pc' = "geometry"
              /\ ipc' = "arm"
              /\ UNCHANGED <<geometry_suggestions, other_suggestions,
                             final_adaptations, result>>
         [] pc = "geometry" ->
              /\ geometry_suggestions' = v
              /\ all_adaptations' = Extend(all_adaptations, v)
              /\ pc' = "other"
              /\ ipc' = "arm"
              /\ UNCHANGED <<ui_suggestions, other_suggestions,
                             final_adaptations, result>>
         [] pc = "other" ->
              /\ other_suggestions' = v
              /\ all_adaptations' = Extend(all_adaptations, v)
              /\ pc' = "check"
              /\ ipc' = "none"
              /\ UNCHANGED <<ui_suggestions, geometry_suggestions,
                             final_adaptations, result>>
         [] pc = "validator" ->
              /\ final_adaptations' = v
              /\ result' = ValidatorDecision(v, all_adaptations)
              /\ pc' = "returned"
              /\ ipc' = "none"
              /\ UNCHANGED <<ui_suggestions, geometry_suggestions,
                             other_suggestions, all_adaptations>>

\* lines 106-109: install the handler, arm the alarm, issue the external call
Arm ==
    /\ UNCHANGED <<sif_config, server_vars>>
    /\ pc \in InvokerPcs
    /\ ipc = "arm"
    /\ pc \in AgentNames => PromptKey(pc) \in sif_config
    /\ alarm' = TRUE
    /\ prompts' = Append(prompts, Prompt(pc))
    /\ ipc' = "call"
    /\ UNCHANGED <<event, profile, history, pc, response, ui_suggestions,
                   geometry_suggestions, other_suggestions, all_adaptations,
                   final_adaptations, result, outcome, served>>

\* generate_content returns a response
Respond ==
    /\ UNCHANGED <<sif_config, server_vars>>
    /\ pc \in InvokerPcs
    /\ ipc = "call"
    /\ \E text \in ResponseTexts : response' = text
    /\ ipc' = "cancel"
    /\ UNCHANGED <<event, profile, history, pc, alarm, ui_suggestions,
                   geometry_suggestions, other_suggestions, all_adaptations,
                   final_adaptations, result, outcome, served, prompts>>

\* generate_content raises (transport or API error); control is at line 168
TransportError ==
    /\ UNCHANGED <<sif_config, server_vars>>
    /\ pc \in InvokerPcs
    /\ ipc = "call"
    /\ ipc' = "except"
    /\ outcome' = [outcome EXCEPT ![pc] = "error"]
    /\ UNCHANGED <<event, profile, history, pc, alarm, response, ui_suggestions,
                   geometry_suggestions, other_suggestions, all_adaptations,
                   final_adaptations, result, served, prompts>>

\* lines 166-167: cancel the alarm, decode the response
CancelAndDecode ==
    /\ UNCHANGED <<sif_config, server_vars>>
    /\ pc \in InvokerPcs
    /\ ipc = "cancel"
    /\ alarm' = FALSE
    /\ IF Decodes(response)
       THEN /\ Return(response.adaptations, "ok")
            /\ served' = [served EXCEPT ![pc] = response.adaptations]
            /\ UNCHANGED <<event, profile, history, prompts>>
       ELSE /\ ipc' = "except"
            /\ outcome' = [outcome EXCEPT ![pc] = "decode"]
            /\ response' = NoResponse
            /\ UNCHANGED <<event, profile, history, pc, ui_suggestions,
                           geometry_suggestions, other_suggestions, all_adaptations,
                           final_adaptations, result, served, prompts>>

\* a variant of ExceptReturn that hands back the answer the deadline interrupted
ExceptReturnLate ==
    /\ UNCHANGED <<sif_config, server_vars>>
    /\ pc \in InvokerPcs
    /\ ipc = "except"
    /\ alarm' = FALSE
    /\ Return(IF served[pc] = Unbound THEN <<>> ELSE served[pc], outcome[pc])
    /\ UNCHANGED <<event, profile, history, served, prompts>>

\* a variant of ExceptReturn without the signal.alarm(0) of line 169
ExceptReturnKeepsAlarm ==
    /\ UNCHANGED <<sif_config, server_vars>>
    /\ pc \in InvokerPcs
    /\ ipc = "except"
    /\ alarm' = alarm
    /\ Return(<<>>, outcome[pc])
    /\ UNCHANGED <<event, profile, history, served, prompts>>

\* lines 168-171: cancel the alarm, return []
ExceptReturn ==
    /\ UNCHANGED <<sif_config, server_vars>>
    /\ pc \in InvokerPcs
    /\ ipc = "except"
    /\ alarm' = FALSE
    /\ Return(<<>>, outcome[pc])
    /\ UNCHANGED <<event, profile, history, served, prompts>>

\* the adaptations of an answer that had already arrived when the deadline
\* fired (line 109 was over, line 166 not yet): the answer is abandoned
Interrupted(text) == IF Decodes(text) THEN text.adaptations ELSE Unbound

\* lines 102-103: SIGALRM is delivered and timeout_handler raises TimeoutError
\* in whatever the main thread is executing.  Inside the try block the
\* exception is caught at line 168; raised while the except block is running
\* (before its signal.alarm(0)) it leaves call_gemini_with_timeout and
\* ma_smart_intent_fusion.  The except block never reads response, so the
\* model drops it on the way in.
timeout_handler ==
    /\ UNCHANGED <<sif_config, server_vars>>
    /\ alarm = TRUE
    /\ alarm' = FALSE
    /\ IF ipc \in InTry
       THEN /\ ipc' = "except"
            /\ outcome' = [outcome EXCEPT ![pc] = "timeout"]
            /\ served' = [served EXCEPT ![pc] = Interrupted(response)]
            /\ response' = NoResponse
            /\ UNCHANGED <<pc, result>>
       ELSE /\ ipc' = "none"
            /\ pc' = "raised"
            /\ result' = Raised("TimeoutError")
            /\ UNCHANGED <<outcome, served, response>>
    /\ UNCHANGED <<event, profile, history, ui_suggestions,
                   geometry_suggestions, other_suggestions, all_adaptations,
                   final_adaptations, prompts>>

-----------------------------------------------------------------------------
(* ma_smart_intent_fusion *)

\* lines 95-98, 174: a caller starts a run on an event and a profile snapshot
StartRun ==
    /\ UNCHANGED <<sif_config, server_vars>>
    /\ pc = "idle"
    /\ \E e \in Events, p \in Profiles, h \in Histories :
          /\ event' = e
          /\ profile' = p
          /\ history' = h
    /\ pc' = "ui"
    /\ ipc' = "arm"
    /\ all_adaptations' = <<>>
    /\ ui_suggestions' = Unbound
    /\ geometry_suggestions' = Unbound
    /\ other_suggestions' = Unbound
    /\ final_adaptations' = Unbound
    /\ result' = NoResult
    /\ outcome' = [a \in AllAgents |-> "none"]
    /\ served' = [a \in AllAgents |-> Unbound]
    /\ prompts' = <<>>
    /\ response' = NoResponse
    /\ UNCHANGED alarm

\* a variant of HasAdaptations that goes to the validator whatever the aggregate
HasAdaptationsAlways(all) == all = all

\* line 207: "if all_adaptations:"
HasAdaptations(all) == all # <<>>

\* lines 177, 187, 197, 209: sif_config[...] raises KeyError for an entry the
\* loaded configuration lacks, before the invoker is entered
MissingPrompt ==
    /\ \/ pc \in AgentNames /\ ipc = "arm" /\ PromptKey(pc) \notin sif_config
       \/ pc = "check" /\ HasAdaptations(all_adaptations)
                       /\ "validator_prompt" \notin sif_config
    /\ pc' = "raised"
    /\ ipc' = "none"
    /\ result' = Raised("KeyError")
    /\ UNCHANGED <<event, profile, history, alarm, response, ui_suggestions,
                   geometry_suggestions, other_suggestions, all_adaptations,
                   final_adaptations, outcome, served, prompts, sif_config,
                   server_vars>>

\* lines 207-218: the aggregate is not empty, the validator is called
CallValidator ==
    /\ UNCHANGED <<sif_config, server_vars>>
    /\ pc = "check"
    /\ HasAdaptations(all_adaptations)
    /\ "validator_prompt" \in sif_config
    /\ pc' = "validator"
    /\ ipc' = "arm"
    /\ UNCHANGED <<event, profile, history, alarm, response, ui_suggestions,
                   geometry_suggestions, other_suggestions, all_adaptations,
                   final_adaptations, result, outcome, served, prompts>>

\* a fallback that records the event in the history list it was handed
UltimateFallbackRecordsEvent ==
    /\ UNCHANGED <<sif_config, server_vars>>
    /\ pc = "check"
    /\ ~HasAdaptations(all_adaptations)
    /\ result' = FallbackDecision(event, profile, history)
    /\ pc' = result'.status
    /\ history' = Append(history, "this_event")
    /\ UNCHANGED <<event, profile, ipc, alarm, response, ui_suggestions,
                   geometry_suggestions, other_suggestions, all_adaptations,
                   final_adaptations, outcome, served, prompts>>

\* lines 237-239: the aggregate is empty, mock_fusion decides
UltimateFallback ==
    /\ UNCHANGED <<sif_config, server_vars>>
    /\ pc = "check"
    /\ ~HasAdaptations(all_adaptations)
    /\ result' = FallbackDecision(event, profile, history)
    /\ pc' = result'.status
    /\ UNCHANGED <<event, profile, history, ipc, alarm, response, ui_suggestions,
                   geometry_suggestions, other_suggestions, all_adaptations,
                   final_adaptations, outcome, served, prompts>>

\* the caller has taken the decision (or the exception) and the frame of the
\* run is gone; the next event may come
FinishRun ==
    /\ UNCHANGED <<sif_config, server_vars>>
    /\ pc \in {"returned", "raised"}
    /\ pc' = "idle"
    /\ ipc' = "none"
    /\ event' = None
    /\ profile' = None
    /\ history' = <<>>
    /\ response' = NoResponse
    /\ ui_suggestions' = Unbound
    /\ geometry_suggestions' = Unbound
    /\ other_suggestions' = Unbound
    /\ all_adaptations' = <<>>
    /\ final_adaptations' = Unbound
    /\ result' = NoResult
    /\ outcome' = [a \in AllAgents |-> "none"]
    /\ served' = [a \in AllAgents |-> Unbound]
    /\ prompts' = <<>>
    /\ UNCHANGED alarm

-----------------------------------------------------------------------------
(* The profile store: profiles_collection *)

Users == {"u1", "u2"}

\* find_one found no document
NoDocument == [document |-> "none"]

\* a stored profile; a document without an interaction_history field reads as
\* one with an empty history (profile.get("interaction_history", [])), and
\* $push creates the field
Document(u, needs, h) ==
    [user_id |-> u, interaction_history |-> h, accessibility_needs |-> needs]

\* u1 has a stored profile, u2 has none
InitialStore ==
    [u \in Users |->
        IF u = "u1" THEN Document(u, JsonObject({"motor_impaired"}), <<>>)
        ELSE NoDocument]

Stored(u) == store[u] # NoDocument

\* the $slice of append_event and of atomic_update
AppendCap == 10

AtomicCap == 20

Cap(op) == IF op = "atomic_update" THEN AtomicCap ELSE AppendCap

\* s[-1]
Last(s) == s[Len(s)]

\* $slice: n with n > 0 keeps the first n elements
FirstN(s, n) == IF Len(s) <= n THEN s ELSE SubSeq(s, 1, n)

\* $slice: -n keeps the last n elements
LastN(s, n) == IF Len(s) <= n THEN s ELSE SubSeq(s, Len(s) - n + 1, Len(s))

\* a push whose $slice is positive: the oldest events stay, the new one is lost
PushKeepsOldest(h, event_data, cap) == FirstN(Append(h, event_data), cap)

\* {"$push": {"interaction_history": {"$each": [event_data], "$slice": -cap}}}
Push(h, event_data, cap) == LastN(Append(h, event_data), cap)

\* update_one with upsert=True: a document is created when none matches
update_one_upsert(u, event_data, cap) ==
    IF Stored(u)
    THEN [store EXCEPT ![u].interaction_history = Push(@, event_data, cap)]
    ELSE [store EXCEPT ![u] = [user_id |-> u, interaction_history |-> <<event_data>>]]

\* update_one without upsert: the document matching the filter is updated,
\* and nothing happens when there is none
update_one(u, event_data, cap) ==
    IF Stored(u)
    THEN [store EXCEPT ![u].interaction_history = Push(@, event_data, cap)]
    ELSE store

\* load_profile: find_one
load_profile(u) == store[u]

\* the events pushed for u so far, after one more update_one
Pushed(u, event_data) ==
    IF Stored(u) THEN [appended EXCEPT ![u] = Append(@, event_data)] ELSE appended

NoOp == [op |-> "none"]

NoReply == [status |-> "none"]

\* no connection read yet, no request made, the store as set up
ServerInit ==
    /\ store = InitialStore
    /\ appended = [u \in Users |-> <<>>]
    /\ wpc = "receive"
    /\ received = <<>>
    /\ sent = <<>>
    /\ hpc = "idle"
    /\ reply = NoReply
    /\ logfailed = {}
    /\ lastop = NoOp

\* a run that has not started
RunInit ==
    /\ pc = "idle"
    /\ ipc = "none"
    /\ alarm = FALSE
    /\ response = NoResponse
    /\ ui_suggestions = Unbound
    /\ geometry_suggestions = Unbound
    /\ other_suggestions = Unbound
    /\ all_adaptations = <<>>
    /\ final_adaptations = Unbound
    /\ outcome = [a \in AllAgents |-> "none"]
    /\ served = [a \in AllAgents |-> Unbound]
    /\ prompts = <<>>

-----------------------------------------------------------------------------

Init ==
    /\ event = None
    /\ profile = None
    /\ history = <<>>
    /\ pc = "idle"
    /\ ipc = "none"
    /\ alarm = FALSE
    /\ response = NoResponse
    /\ ui_suggestions = Unbound
    /\ geometry_suggestions = Unbound
    /\ other_suggestions = Unbound
    /\ all_adaptations = <<>>
    /\ final_adaptations = Unbound
    /\ result = NoResult
    /\ outcome = [a \in AllAgents |-> "none"]
    /\ served = [a \in AllAgents |-> Unbound]
    /\ prompts = <<>>
    /\ sif_config \in Configs
    /\ ServerInit

Next ==
    \/ StartRun
    \/ Arm
    \/ Respond
    \/ TransportError
    \/ CancelAndDecode
    \/ ExceptReturn
    \/ timeout_handler
    \/ CallValidator
    \/ UltimateFallback
    \/ MissingPrompt
    \/ FinishRun

Spec == Init /\ [][Next]_vars

\* The interpreter runs the statements of a started run, and the kernel delivers
\* SIGALRM once an armed alarm has run out; nothing makes the external service
\* answer.
ProgramStep ==
    \/ Arm \/ CancelAndDecode \/ ExceptReturn \/ CallValidator \/ UltimateFallback
    \/ MissingPrompt

Fairness == WF_vars(ProgramStep) /\ WF_vars(timeout_handler)

FairSpec == Spec /\ Fairness

Running == pc \in AllAgents \cup {"check"}

-----------------------------------------------------------------------------
(* Vocabulary of the properties *)

Finished == {"returned", "raised"}

\* the local variable that receives the invoker's return value for agent a
Suggestions(a) ==
    CASE a = "ui"        -> ui_suggestions
      [] a = "geometry"  -> geometry_suggestions
      [] a = "other"     -> other_suggestions
      [] a = "validator" -> final_adaptations

Failures == {"timeout", "error", "decode"}

\* the invoker call for agent a is over
Ended(a) == outcome[a] # "none" /\ pc # a

\* what the service's answer for agent a holds, if the invoker decoded one
Contribution(a) == IF outcome[a] = "ok" THEN served[a] ELSE <<>>

RECURSIVE ConcatContributions(_)
ConcatContributions(n) ==
    IF n = 0 THEN <<>>
    ELSE ConcatContributions(n - 1) \o Contribution(Agents[n])

\* the pre-validation aggregate: the successful agents' lists in registration order
Aggregate == ConcatContributions(Len(Agents))

FanOutDone == \A a \in AgentNames : Ended(a)

ValidatorFailed ==
    \/ outcome["validator"] \in Failures
    \/ outcome["validator"] = "ok" /\ served["validator"] = <<>>

ValidatorCalled == \E i \in 1..Len(prompts) : prompts[i].agent = "validator"

CallsOf(a) == Cardinality({i \in 1..Len(prompts) : prompts[i].agent = a})

NonEmptyField(c, k) == k \in DOMAIN c /\ c[k] # ""

\* the candidate schema of lines 114-160: the four required strings, and
\* exactly one of value / mode
WellFormed(c) ==
    /\ \A k \in {"action", "target", "reason", "intent"} : NonEmptyField(c, k)
    /\ ("value" \in DOMAIN c) # ("mode" \in DOMAIN c)

AllWellFormed(l) == \A i \in 1..Len(l) : WellFormed(l[i])

-----------------------------------------------------------------------------
(* What the runs that do return a decision satisfy *)

\* a run that returns comes out of the cascade: rule fallback on an empty
\* aggregate, the validator's list if it gave one, the aggregate otherwise
ReturnedRunsFollowCascade ==
    pc = "returned" =>
        /\ FanOutDone
        /\ all_adaptations = Aggregate
        /\ result = IF Aggregate = <<>>
                    THEN FallbackDecision(event, profile, history)
                    ELSE ValidatorDecision(Contribution("validator"), Aggregate)
        /\ \A a \in AgentNames : CallsOf(a) = 1
        /\ CallsOf("validator") = (IF Aggregate = <<>> THEN 0 ELSE 1)

\* a call that has not answered is ended by its deadline, and no run stays
\* in progress for ever
RunsEnd ==
    /\ (ipc = "call") ~> (ipc # "call")
    /\ Running ~> (pc \in Finished)

-----------------------------------------------------------------------------
(* C1 *)

\* C1 (total-failure safety): when each of the three fan-out calls timed out,
\* raised or failed to decode, the run ends by returning, without raising,
\* the rule-fallback decision mock_fusion(event, profile, history).
C1_TotalFailureSafety ==
    (pc \in Finished /\ \A a \in AgentNames : outcome[a] \in Failures)
        => result = [status      |-> "returned",
                     path        |-> "mock_fusion",
                     adaptations |-> mock_fusion(event, profile, history)]

-----------------------------------------------------------------------------
(* C2 *)

\* C2 (validator precedence): when the aggregate holds a candidate and the
\* validator call succeeded with a non-empty list, the decision returned is
\* that list verbatim: nothing of the aggregate is added to it.
C2_ValidatorPrecedence ==
    (/\ pc = "returned"
     /\ Aggregate # <<>>
     /\ outcome["validator"] = "ok"
     /\ served["validator"] # <<>>)
        => result = [status      |-> "returned",
                     path        |-> "final_adaptations",
                     adaptations |-> served["validator"]]

\* a validated run whose validator kept one candidate of a longer aggregate
C2_Witness ==
    /\ pc = "returned"
    /\ outcome["validator"] = "ok"
    /\ served["validator"] = <<K1>>
    /\ Aggregate = <<K2, B1, K1>>
    /\ result.adaptations = <<K1>>

-----------------------------------------------------------------------------
(* C3 *)

\* C3 (degrade correctness): when the aggregate holds a candidate and the
\* validator call failed, timed out or returned an empty list, the run ends by
\* returning the pre-validation aggregate verbatim, not the rule fallback.
C3_DegradeCorrectness ==
    (/\ pc \in Finished
     /\ FanOutDone
     /\ Aggregate # <<>>
     /\ ValidatorFailed)
        => result = [status      |-> "returned",
                     path        |-> "all_adaptations",
                     adaptations |-> Aggregate]

-----------------------------------------------------------------------------
(* C4 *)

\* C4: whatever the outcomes of the three agent calls and of the validator
\* call, the run hands its caller a decision and never an exception.
C4_NoExceptionToCaller == result.status # "raised"

-----------------------------------------------------------------------------
(* C5 *)

\* C5 (schema invariant): every candidate of a returned decision is well
\* formed, and an answer holding a malformed candidate contributes nothing.
C5_SchemaInvariant ==
    /\ pc = "returned" => AllWellFormed(result.adaptations)
    /\ \A a \in AllAgents :
          (Ended(a) /\ outcome[a] = "ok" /\ ~AllWellFormed(served[a]))
              => Suggestions(a) = <<>>

-----------------------------------------------------------------------------
(* C6 *)

\* what the invoker handed back for agent a is the empty list whenever the
\* call failed or its answer broke the schema
ConvertedToEmpty(how, answer, handed) ==
    (how \in Failures \/ (how = "ok" /\ ~AllWellFormed(answer))) => handed = <<>>

\* C6: no step of the invoker, wherever the alarm fires, lets an exception
\* reach the caller, and every call that is over handed back the empty list
\* if it met a decode error, a schema violation, a transport error or an
\* expired deadline.
C6_InvokerNeverRaises ==
    /\ [][(pc \in AllAgents) => (pc' # "raised")]_vars
    /\ [](pc \in Finished =>
            \A a \in AllAgents :
                (Ended(a) /\ Suggestions(a) # Unbound)
                    => ConvertedToEmpty(outcome[a], served[a], Suggestions(a)))

-----------------------------------------------------------------------------
(* C7 *)

\* the run is past its fan-out: all three agent calls are over and line 207
\* has been evaluated
PastFanOut ==
    \/ pc \in {"validator", "returned"}
    \/ ValidatorCalled
    \/ pc = "raised" /\ FanOutDone /\ result.exc # "TimeoutError"

\* C7: with an empty aggregate after fan-out no validator call is made, the
\* validator's result is never bound or read, and the run goes straight to
\* the rule fallback, ending with whatever mock_fusion gives; the validator
\* is called only with a non-empty aggregate.
C7_EmptyAggregateSkipsValidator ==
    /\ (PastFanOut /\ all_adaptations = <<>>)
          => /\ ~ValidatorCalled
             /\ pc \in Finished
             /\ outcome["validator"] = "none"
             /\ final_adaptations = Unbound
             /\ result = FallbackDecision(event, profile, history)
    /\ ValidatorCalled => (FanOutDone /\ Aggregate # <<>>)

\* a run that fell back to the rules after an empty answer, a timeout and an
\* error, and got a decision from them
C7_Witness ==
    /\ pc = "returned"
    /\ outcome = [a \in AllAgents |->
                    CASE a = "ui"        -> "ok"
                      [] a = "geometry"  -> "timeout"
                      [] a = "other"     -> "error"
                      [] a = "validator" -> "none"]
    /\ ~ValidatorCalled
    /\ result.path = "mock_fusion"
    /\ Len(result.adaptations) = 3

-----------------------------------------------------------------------------
(* C8 *)

\* C8: every run invokes the three fan-out agents in registration order
\* whatever the earlier ones did (a failed agent contributes nothing and does
\* not end the run), and the validator only after all three are over.
C8_EveryAgentInvokedInOrder ==
    /\ \A i \in 1..Len(prompts) :
          IF i <= Len(Agents)
          THEN prompts[i].agent = Agents[i]
          ELSE prompts[i].agent = "validator" /\ FanOutDone
    /\ \A a \in AgentNames :
          (Ended(a) /\ outcome[a] \in Failures /\ pc # "raised")
              => Suggestions(a) = <<>>
    /\ pc \in Finished => Len(prompts) >= Len(Agents)

-----------------------------------------------------------------------------
(* C9 *)

\* C9 (at-most-once calls): a run calls the service exactly once for each
\* fan-out agent and at most once for the validator, never again after a
\* failure: at most Len(Agents) + 1 calls.
C9_CallsOncePerAgent ==
    /\ \A a \in AllAgents : CallsOf(a) <= 1
    /\ Len(prompts) <= Len(Agents) + 1
    /\ pc \in Finished => \A a \in AgentNames : CallsOf(a) = 1

-----------------------------------------------------------------------------
(* C10 *)

\* C10 (timeout bound): a call that ran into its deadline contributes no
\* candidate, a pending external call is always left (the deadline ends it
\* if nothing else does), and every run ends with a decision.
C10_TimeoutBound ==
    /\ [](\A a \in AllAgents :
            (Ended(a) /\ outcome[a] = "timeout" /\ pc # "raised")
                => Suggestions(a) = <<>>)
    /\ (ipc = "call") ~> (ipc # "call")
    /\ Running ~> (pc = "returned")

-----------------------------------------------------------------------------
(* C11 *)

\* the lists a returned decision can be made of
DecisionSources ==
    {Contribution("validator"), Aggregate, mock_fusion(event, profile, history)}

\* C11: a call whose deadline expired is abandoned and its answer never used:
\* the invoker hands back the empty list for it even when the answer had
\* arrived, the aggregate holds the decoded answers of the calls that beat
\* their deadline and nothing else, and a returned decision is the
\* validator's decoded answer, that aggregate or the rule fallback.
C11_DeadlineAbandons ==
    /\ \A a \in AllAgents :
          outcome[a] = "timeout"
              => Suggestions(a) = (IF pc = a THEN Unbound ELSE <<>>)
    /\ all_adaptations = Aggregate
    /\ pc = "returned" => result.adaptations \in DecisionSources

\* a returned run whose ui answer <<K1>> had arrived when the deadline fired
\* and whose validator answer <<K1>> was interrupted too: K1 is in neither
\* the aggregate nor the decision
C11_Witness ==
    /\ pc = "returned"
    /\ outcome["ui"] = "timeout" /\ served["ui"] = <<K1>>
    /\ outcome["validator"] = "timeout" /\ served["validator"] = <<K1>>
    /\ all_adaptations = <<K2, B1>>
    /\ result.adaptations = <<K2, B1>>

-----------------------------------------------------------------------------
(* C12 *)

\* lines 359 and 381: what the caller of the run sends on as the decision
SentDecision == [adaptations |-> result.adaptations]

\* the cascade step a returned run ended in
CascadeStep ==
    IF Aggregate = <<>> THEN "rule_fallback"
    ELSE IF Contribution("validator") # <<>> THEN "validated"
    ELSE "combined_unvalidated"

\* C12: every decision carries a classification tag, and the tag names the
\* cascade step that produced the decision: validated iff the validator
\* returned a non-empty list, combined_unvalidated iff the aggregate was not
\* empty and the validator failed or returned empty, rule_fallback iff the
\* aggregate was empty.
C12_ClassificationTag ==
    pc = "returned" =>
        /\ "classification" \in DOMAIN SentDecision
        /\ SentDecision.classification = CascadeStep

-----------------------------------------------------------------------------
(* C13 *)

\* candidate c with the provenance tag of agent a
Tagged(c, a) ==
    [k \in DOMAIN c \cup {"agent"} |-> IF k = "agent" THEN a ELSE c[k]]

TaggedList(l, a) == [i \in 1..Len(l) |-> Tagged(l[i], a)]

RECURSIVE ConcatTagged(_)
ConcatTagged(n) ==
    IF n = 0 THEN <<>>
    ELSE ConcatTagged(n - 1) \o TaggedList(Contribution(Agents[n]), Agents[n])

HasAgentTag(c) == "agent" \in DOMAIN c

\* C13: the aggregate holds every successful agent's candidates tagged with
\* that agent's name, so each candidate of a combined_unvalidated decision
\* carries an agent tag, and no candidate of a rule-fallback decision does.
C13_AgentProvenance ==
    /\ all_adaptations = ConcatTagged(Len(Agents))
    /\ (pc = "returned" /\ CascadeStep = "combined_unvalidated")
          => \A i \in 1..Len(result.adaptations) : HasAgentTag(result.adaptations[i])
    /\ (pc = "returned" /\ CascadeStep = "rule_fallback")
          => \A i \in 1..Len(result.adaptations) : ~HasAgentTag(result.adaptations[i])

-----------------------------------------------------------------------------
(* C14 *)

\* the three lists a validator prompt carries, joined in registration order
PromptAggregate(q) == q.ui_suggestions \o q.geometry_suggestions \o q.other_suggestions

\* C14 (ordering guarantee): the aggregate is at every moment the
\* concatenation, in registration order, of the lists the successful agents
\* returned, each in the order returned, with nothing reordered, dropped or
\* deduplicated; the validator is handed exactly these lists, and a degraded
\* run returns exactly this aggregate.
C14_AggregateOrder ==
    /\ all_adaptations = Aggregate
    /\ \A i \in 1..Len(prompts) :
          prompts[i].agent = "validator"
              => /\ prompts[i].ui_suggestions = Contribution("ui")
                 /\ prompts[i].geometry_suggestions = Contribution("geometry")
                 /\ prompts[i].other_suggestions = Contribution("other")
                 /\ PromptAggregate(prompts[i]) = Aggregate
    /\ (pc = "returned" /\ CascadeStep = "combined_unvalidated")
          => result.adaptations = Aggregate

\* a degraded run whose ui and other agents both returned K1 around the
\* geometry agent's two candidates: the duplicate and the order are kept
C14_Witness ==
    /\ pc = "returned"
    /\ served["ui"] = <<K1>> /\ served["geometry"] = <<K2, B1>> /\ served["other"] = <<K1>>
    /\ ValidatorFailed
    /\ PromptAggregate(prompts[4]) = <<K1, K2, B1, K1>>
    /\ result.adaptations = <<K1, K2, B1, K1>>

-----------------------------------------------------------------------------
(* C15 *)

\* the run has reached line 239 and ended there
EndedInFallback == pc \in Finished /\ PastFanOut /\ Aggregate = <<>>

-----------------------------------------------------------------------------
(* C16 *)

\* the profile has the accessibility flag set
FlagSet(p, flag) ==
    /\ "accessibility_needs" \in DOMAIN p
    /\ p.accessibility_needs.json = "object"
    /\ flag \in p.accessibility_needs.flags

\* the event is a miss-tap or a slider-miss
IsMiss(e) ==
    \/ e.event_type = <<"miss", "tap">>
    \/ \E i \in 1..(Len(e.event_type) - 1) :
          e.event_type[i] = "slider" /\ e.event_type[i + 1] = "miss"

Enlarge(target, by, reason, intent) ==
    [action |-> "increase_button_size", target |-> target, value |-> by,
     reason |-> reason, intent |-> intent]

\* one candidate when the guard holds, none otherwise
When(guard, candidate) == IF guard THEN <<candidate>> ELSE <<>>

\* the four guards evaluated in order, each on its own
GuardSequence(e, p) ==
    When(IsMiss(e),
         Enlarge(IF e.target_element = None THEN "all" ELSE e.target_element, "1.3",
                 "Miss-tap detected, increasing target size",
                 "User had difficulty hitting target"))
    \o When(FlagSet(p, "motor_impaired"),
            Enlarge("all", "1.5",
                    "Motor impairment detected, enlarging all elements",
                    "Improve accessibility for motor difficulties"))
    \o When(FlagSet(p, "visual_impaired"),
            [action |-> "increase_contrast", target |-> "all", mode |-> "high",
             reason |-> "Visual impairment detected, increasing contrast",
             intent |-> "Improve visibility for visual difficulties"])
    \o When(e.event_type = <<"voice">>,
            [action |-> "switch_mode", target |-> "all", mode |-> "voice",
             reason |-> "Voice input detected, switching to voice mode",
             intent |-> "User prefers voice interaction"])

\* C16: for every event and profile the rule fallback gives exactly the
\* candidates of the four guards that hold, in the order miss-tap or
\* slider-miss (event target, or all, by 1.3), motor (all by 1.5), visual
\* (high contrast on all), voice (switch to voice mode).
C16_GuardSequence ==
    EndedInFallback
        => result = [status      |-> "returned",
                     path        |-> "mock_fusion",
                     adaptations |-> GuardSequence(event, profile)]

\* whenever the rule fallback returns, it returns the guard sequence
ReturnedFallbackIsGuardSequence ==
    (pc = "returned" /\ EndedInFallback)
        => result.adaptations = GuardSequence(event, profile)

-----------------------------------------------------------------------------
(* C17 *)

\* the rules of mock_fusion whose guard holds for (e, p)
Firing(e, p) ==
    {r \in {"miss", "motor", "visual", "voice"} :
        CASE r = "miss"   -> MissTapRule(e) # <<>>
          [] r = "motor"  -> ~NeedsRaises(p) /\ MotorRule(p) # <<>>
          [] r = "visual" -> ~NeedsRaises(p) /\ VisualRule(p) # <<>>
          [] r = "voice"  -> VoiceRule(e) # <<>>}

\* C17 as stated: the next run can be started on an event and a profile that
\* make all four guards fire, the rule fallback returning four candidates
\* for them.
C17_FourGuardsMayFire ==
    pc = "idle" =>
        \E e \in Events, p \in Profiles :
            /\ Cardinality(Firing(e, p)) = 4
            /\ Len(mock_fusion(e, p, <<>>)) = 4

\* C17 amended: the miss guard and the voice guard never hold for the same
\* event (the voice guard asks for the event type "voice" itself), so at
\* most three guards fire for one event and profile and the rule fallback
\* never returns more than three candidates.
C17_AtMostThreeGuards ==
    /\ pc # "idle"
          => /\ ~({"miss", "voice"} \subseteq Firing(event, profile))
             /\ Cardinality(Firing(event, profile)) <= 3
    /\ (pc = "returned" /\ EndedInFallback) => Len(result.adaptations) <= 3

\* a rule-fallback run on a "voice_slider_miss" event of a user with both
\* flags: the miss, motor and visual guards fire, the voice guard does not
C17_Witness ==
    /\ pc = "returned"
    /\ EndedInFallback
    /\ event.event_type = <<"voice", "slider", "miss">>
    /\ Firing(event, profile) = {"miss", "motor", "visual"}
    /\ Len(result.adaptations) = 3

-----------------------------------------------------------------------------
(* C18 *)

\* C18: the rule fallback step cannot fail: on every event and profile
\* snapshot a run may be given, a run that reaches the rule fallback ends by
\* returning mock_fusion's list, which is empty when no guard holds.
C18_FallbackNeverRaises ==
    EndedInFallback
        => /\ result.status = "returned"
           /\ Firing(event, profile) = {} => result.adaptations = <<>>

\* on a profile whose accessibility_needs is an object the rule fallback
\* always returns, the empty list when no guard holds
FallbackReturnsOnObjectNeeds ==
    (EndedInFallback /\ profile.accessibility_needs.json = "object")
        => /\ result.status = "returned"
           /\ Firing(event, profile) = {} => result.adaptations = <<>>

-----------------------------------------------------------------------------
(* C19 *)

\* C19: a configuration that lacks the validator entry or an agent prompt
\* entry is rejected when it is loaded, never first detected during a run:
\* no run ends with the KeyError of a missing entry.
C19_ConfigCheckedAtLoad == pc = "raised" => result.exc # "KeyError"

-----------------------------------------------------------------------------
(* C20 *)

\* no run is in progress
BetweenRuns == pc \in {"idle"} \cup Finished

\* the decision is determined by the run's event, its profile and history
\* snapshot and the answers decoded for its own calls
DecisionOfOwnInputs ==
    pc = "returned" =>
        result = IF Aggregate = <<>>
                 THEN FallbackDecision(event, profile, history)
                 ELSE ValidatorDecision(Contribution("validator"), Aggregate)

\* C20 (runs are independent): no step of a run changes state shared by the
\* whole process, no deadline timer of a run is armed once the run is over,
\* and the decision of a run is a function of its own event, snapshot and
\* answers alone.
C20_RunsIndependent ==
    /\ [][alarm' = alarm]_vars
    /\ [](BetweenRuns => alarm = FALSE)
    /\ []DecisionOfOwnInputs

\* a run leaves no armed timer behind, and what it returns depends on its
\* own inputs only
NoTimerOutlivesItsRun == (BetweenRuns => alarm = FALSE) /\ DecisionOfOwnInputs

-----------------------------------------------------------------------------
(* C23 *)

\* positions at which an invoker call is under way with its alarm set
InCall == {"call", "cancel", "except"}

\* C23: whenever an invoker call ends, by success, failure or timeout, its
\* deadline timer is no longer armed: a timer is armed only while the call
\* that armed it is under way, so none is left to fire in a later call or a
\* later run.
C23_NoTimerLeftArmed ==
    /\ [][(ipc \in InCall /\ ipc' \notin InCall) => (alarm' = FALSE)]_vars
    /\ [](alarm = TRUE => (pc \in AllAgents /\ ipc \in InCall))

\* the geometry call is under way with its own timer after the ui call was
\* ended by its deadline
C23_Witness ==
    /\ pc = "geometry"
    /\ ipc = "call"
    /\ alarm = TRUE
    /\ outcome["ui"] = "timeout"
    /\ ui_suggestions = <<>>

-----------------------------------------------------------------------------
(* C24 *)

\* C24: the validator call is given the full fan-out aggregate, every
\* candidate of every successful agent, together with the event, the profile
\* and the history that the fan-out agents of the run were given.
C24_ValidatorInputs ==
    \A i \in 1..Len(prompts) :
        prompts[i].agent = "validator"
            => /\ PromptAggregate(prompts[i]) = Aggregate
               /\ prompts[i].event_json = prompts[1].event_json
               /\ prompts[i].profile_json = prompts[1].profile_json
               /\ prompts[i].history_json = prompts[1].history_json

\* the validator is given the aggregate, the event and the profile of the run
ValidatorGetsAggregateEventProfile ==
    \A i \in 1..Len(prompts) :
        prompts[i].agent = "validator"
            => /\ PromptAggregate(prompts[i]) = Aggregate
               /\ prompts[i].event_json = event
               /\ prompts[i].profile_json = profile

-----------------------------------------------------------------------------
(* C26 *)

MOCK_REASONS ==
    {"Miss-tap detected, increasing target size",
     "Motor impairment detected, enlarging all elements",
     "Visual impairment detected, increasing contrast",
     "Voice input detected, switching to voice mode"}

\* Python: a.get("reason", "")
ReasonOf(a) == IF "reason" \in DOMAIN a THEN a.reason ELSE ""

\* run_event_suite_seq.py, lines 14-22.  No reason a candidate of the model
\* holds contains another one, so "sig in reason" is reason = sig.
classify(adaptations) ==
    IF \E i \in 1..Len(adaptations) : "agent" \in DOMAIN adaptations[i]
    THEN "combined_agent_suggestions"
    ELSE IF \E i \in 1..Len(adaptations) : ReasonOf(adaptations[i]) \in MOCK_REASONS
         THEN "mock_rule_fallback"
         ELSE "validated_by_validator"

\* evaluation.py, lines 77-94, the label it gives: the mock label needs a
\* miss-tap reason, no validator tag and a schema violation
classify_response(ad) ==
    LET schema_valid == AllWellFormed(ad)
        tagged == \E i \in 1..Len(ad) : "agent" \in DOMAIN ad[i]
        cue == /\ ad # <<>>
               /\ \E i \in 1..Len(ad) :
                     ReasonOf(ad[i]) = "Miss-tap detected, increasing target size"
               /\ ~\E i \in 1..Len(ad) :
                     "agent" \in DOMAIN ad[i] /\ ad[i].agent = "validator"
    IN  IF cue /\ ~schema_valid THEN "mock_rule_fallback"
        ELSE IF tagged THEN "combined_agent_suggestions"
        ELSE "validated_by_validator"

\* the label the scripts use for a cascade step
LabelOf(step) ==
    CASE step = "rule_fallback"        -> "mock_rule_fallback"
      [] step = "combined_unvalidated" -> "combined_agent_suggestions"
      [] step = "validated"            -> "validated_by_validator"

\* label agrees with the cascade step of a returned run: the two named
\* labels whenever their step was taken, the validated label only then
Agrees(label) ==
    /\ CascadeStep \in {"rule_fallback", "combined_unvalidated"}
          => label = LabelOf(CascadeStep)
    /\ label = "validated_by_validator" => CascadeStep = "validated"

\* C26: the downstream classifiers agree with the cascade path of every
\* decision: mock_rule_fallback whenever the rule fallback produced it,
\* combined_agent_suggestions whenever the unvalidated aggregate was
\* returned, validated_by_validator only when the validator's list was.
C26_ClassifierAgrees ==
    pc = "returned" =>
        /\ Agrees(classify(result.adaptations))
        /\ Agrees(classify_response(result.adaptations))

-----------------------------------------------------------------------------
(* The history appends on their own: any caller, any order *)

endpoint_vars == <<wpc, received, sent, hpc, reply, logfailed>>

args_vars == <<event, profile, history, result>>

\* the event data of the next append for u: events are told apart by their
\* number
NextData(u) == Len(appended[u]) + 1

\* append_event(user_id, event_data)
append_event ==
    \E u \in Users :
        /\ Len(appended[u]) < MaxAppends
        /\ store' = update_one(u, NextData(u), AppendCap)
        /\ appended' = Pushed(u, NextData(u))
        /\ lastop' = [op |-> "append_event", user_id |-> u, done |-> TRUE]
        /\ UNCHANGED <<args_vars, run_vars, endpoint_vars>>

\* atomic_update(user_id, event_data): the transaction commits the callback's
\* update_one, or the call raises and nothing is written
atomic_update ==
    \E u \in Users, commits \in BOOLEAN :
        /\ Len(appended[u]) < MaxAppends
        /\ store' = IF commits THEN update_one(u, NextData(u), AtomicCap) ELSE store
        /\ appended' = IF commits THEN Pushed(u, NextData(u)) ELSE appended
        /\ lastop' = [op |-> "atomic_update", user_id |-> u, done |-> commits]
        /\ UNCHANGED <<args_vars, run_vars, endpoint_vars>>

StoreInit == Init /\ sif_config = FullConfig

StoreNext == append_event \/ atomic_update

StoreSpec == StoreInit /\ [][StoreNext]_vars

\* the stored history of u
HistoryOf(u) == store[u].interaction_history

\* the last n of the events pushed for u, oldest first
MostRecent(u, n) == LastN(appended[u], n)

Min(a, b) == IF a <= b THEN a ELSE b

\* the cap of the operation that pushed last for u, and the larger cap before
\* any push
CapNow(u) ==
    IF lastop.op # "none" /\ lastop.user_id = u /\ lastop.done THEN Cap(lastop.op)
    ELSE AtomicCap

(* C21: for a user with a stored profile the history holds at most the cap of
   the operation that appended last (10 for append_event, 20 for
   atomic_update), it is exactly the most recently appended events in the order
   they were appended, and an append evicts from the old end only what exceeds
   its cap *)
C21_BoundedHistory ==
    /\ [](\A u \in Users : Stored(u) =>
            /\ Len(HistoryOf(u)) <= CapNow(u)
            /\ HistoryOf(u) = MostRecent(u, Len(HistoryOf(u)))
            /\ (appended[u] # <<>> => Last(HistoryOf(u)) = Last(appended[u])))
    /\ [][\A u \in Users : (Stored(u) /\ appended'[u] # appended[u]) =>
            Len(HistoryOf(u))' = Min(Len(HistoryOf(u)) + 1, Cap(lastop'.op))]_vars

\* eleven events were appended by append_event alone: the first is gone
C21_Witness ==
    /\ Len(appended["u1"]) = AppendCap + 1
    /\ lastop.op = "append_event" /\ lastop.user_id = "u1"
    /\ HistoryOf("u1") = SubSeq(appended["u1"], 2, AppendCap + 1)

\* an atomic_update filled the history to its cap of twenty
AtomicCapReached ==
    /\ Len(HistoryOf("u1")) = AtomicCap
    /\ Len(appended["u1"]) > AtomicCap

-----------------------------------------------------------------------------
(* C25 *)

(* C25: no step of a run of ma_smart_intent_fusion, from its first statement to
   its return or raise, changes the event, the profile snapshot or the history
   snapshot it was given, or the stored profiles and what was pushed to them *)
C25_RunLeavesInputsAndStore ==
    [][Running =>
          /\ event' = event
          /\ profile' = profile
          /\ history' = history
          /\ store' = store
          /\ appended' = appended]_vars

\* a run over a non-empty history snapshot went through the rule fallback and
\* returned, the store being as it was
C25_Witness ==
    /\ pc = "returned"
    /\ result.path = "mock_fusion"
    /\ history = <<"past_event">>
    /\ FlagSet(profile, "motor_impaired")
    /\ store = InitialStore

-----------------------------------------------------------------------------
(* The endpoints: websocket_adapt on one connection, and POST /context *)

\* Between receive_json and send_json, and in all of process_event, no await
\* suspends (load_profile, append_event and log_adaptation are coroutines
\* without an await of their own, ma_smart_intent_fusion is a plain call): the
\* two handlers interleave only where the connection waits for its next event.
\* The run of ma_smart_intent_fusion is the state machine above; here it is one
\* step that ends in one of the ways a run ends.

\* the events a client sends: the n-th event of the connection carries
\* timestamp n, a request to POST /context carries timestamp 0
ClientEvents(n) ==
    [user_id : Users, timestamp : {n}, event_type : {<<"miss", "tap">>},
     target_element : {"lamp"}]

\* lines 369-375: the profile used when load_profile finds none
DefaultProfile(u) ==
    [user_id |-> u, interaction_history |-> <<>>,
     accessibility_needs |-> JsonObject({}),
     input_preferences |-> JsonObject({}), ui_preferences |-> JsonObject({})]

\* event.model_dump_json(): the event as a JSON string
model_dump_json(e) == [json |-> "string", text |-> e]

\* ways a run on (e, p, h) ends: the rule fallback's decision, the validator's
\* list, or an exception that escapes
RunOutcomes(e, p, h) ==
    { FallbackDecision(e, p, h),
      ValidatorDecision(<<K1>>, <<K2>>),
      Raised("TimeoutError") }

\* the message of line 381; "for" tells which event it answers
Message(e, r) == [adaptations |-> r.adaptations, for |-> e.timestamp]

InIteration == {"load", "run", "append", "log", "send"}

HttpQuiet == hpc \in {"idle", "done"}

WsQuiet == wpc \in {"receive", "closed"}

\* lines 367-368: an event arrives on the connection
WsReceive ==
    /\ wpc = "receive"
    /\ HttpQuiet
    /\ Len(received) < MaxEvents
    /\ \E e \in ClientEvents(Len(received) + 1) :
          /\ event' = e
          /\ received' = Append(received, e)
    /\ wpc' = "load"
    /\ profile' = None
    /\ history' = <<>>
    /\ result' = NoResult
    /\ UNCHANGED <<run_vars, store, appended, sent, hpc, reply, logfailed, lastop>>

\* lines 367-368 raise: the client has gone, or what it sent is no Event;
\* lines 382-385 close the socket
WsDisconnect ==
    /\ wpc = "receive"
    /\ HttpQuiet
    /\ wpc' = "closed"
    /\ UNCHANGED <<args_vars, run_vars, store, appended, received, sent, hpc,
                   reply, logfailed, lastop>>

\* a handler that records the event before it takes the snapshot
WsLoadAfterAppend ==
    /\ wpc = "load"
    /\ profile' = IF Stored(event.user_id) THEN load_profile(event.user_id)
                  ELSE DefaultProfile(event.user_id)
    /\ history' = Append(profile'.interaction_history, model_dump_json(event))
    /\ wpc' = "run"
    /\ UNCHANGED <<event, result, run_vars, store, appended, received, sent, hpc,
                   reply, logfailed, lastop>>

\* lines 369-376
WsLoad ==
    /\ wpc = "load"
    /\ profile' = IF Stored(event.user_id) THEN load_profile(event.user_id)
                  ELSE DefaultProfile(event.user_id)
    /\ history' = profile'.interaction_history
    /\ wpc' = "run"
    /\ UNCHANGED <<event, result, run_vars, store, appended, received, sent, hpc,
                   reply, logfailed, lastop>>

\* line 377; an exception goes to lines 382-385
WsRun ==
    /\ wpc = "run"
    /\ result' \in RunOutcomes(event, profile, history)
    /\ wpc' = IF result'.status = "returned" THEN "append" ELSE "closed"
    /\ UNCHANGED <<event, profile, history, run_vars, store, appended, received,
                   sent, hpc, reply, logfailed, lastop>>

\* line 378
WsAppendEvent ==
    /\ wpc = "append"
    /\ store' = update_one(event.user_id, model_dump_json(event), AppendCap)
    /\ appended' = Pushed(event.user_id, model_dump_json(event))
    /\ lastop' = [op |-> "append_event", user_id |-> event.user_id, done |-> TRUE]
    /\ wpc' = "log"
    /\ UNCHANGED <<args_vars, run_vars, received, sent, hpc, reply, logfailed>>

\* line 379: log_adaptation queues the database insert and writes the line to
\* adaptation_log.jsonl; when open() or write() raises, lines 382-385 follow
WsLog ==
    /\ wpc = "log"
    /\ \E written \in BOOLEAN :
          /\ wpc' = IF written THEN "send" ELSE "closed"
          /\ logfailed' = IF written THEN logfailed
                          ELSE logfailed \cup {event.timestamp}
    /\ UNCHANGED <<args_vars, run_vars, store, appended, received, sent, hpc,
                   reply, lastop>>

\* a handler that sends the decision of an event twice
WsSendTwice ==
    /\ wpc = "send"
    /\ sent' = sent \o <<Message(event, result), Message(event, result)>>
    /\ wpc' = "receive"
    /\ UNCHANGED <<args_vars, run_vars, store, appended, received, hpc, reply,
                   logfailed, lastop>>

\* line 381, and back to line 367
WsSend ==
    /\ wpc = "send"
    /\ sent' = Append(sent, Message(event, result))
    /\ wpc' = "receive"
    /\ UNCHANGED <<args_vars, run_vars, store, appended, received, hpc, reply,
                   logfailed, lastop>>

ErrorReply(exc) == [status |-> "error", exc |-> exc]

\* POST /context is called with an event
HttpRequest ==
    /\ HttpQuiet
    /\ WsQuiet
    /\ \E e \in ClientEvents(0) : event' = e
    /\ hpc' = "load"
    /\ reply' = NoReply
    /\ profile' = None
    /\ history' = <<>>
    /\ result' = NoResult
    /\ UNCHANGED <<run_vars, store, appended, wpc, received, sent, logfailed,
                   lastop>>

\* lines 354-355: load_profile returns None for a user without a document, and
\* None.get raises AttributeError
HttpLoad ==
    /\ hpc = "load"
    /\ IF Stored(event.user_id)
       THEN /\ profile' = load_profile(event.user_id)
            /\ history' = profile'.interaction_history
            /\ hpc' = "run"
            /\ UNCHANGED reply
       ELSE /\ reply' = ErrorReply("AttributeError")
            /\ hpc' = "done"
            /\ UNCHANGED <<profile, history>>
    /\ UNCHANGED <<event, result, run_vars, store, appended, wpc, received, sent,
                   logfailed, lastop>>

\* line 356
HttpRun ==
    /\ hpc = "run"
    /\ result' \in RunOutcomes(event, profile, history)
    /\ IF result'.status = "returned"
       THEN hpc' = "append" /\ UNCHANGED reply
       ELSE hpc' = "done" /\ reply' = ErrorReply(result'.exc)
    /\ UNCHANGED <<event, profile, history, run_vars, store, appended, wpc,
                   received, sent, logfailed, lastop>>

\* line 357: append_event takes two arguments and is called with three; the
\* call raises TypeError before anything is written, and lines 358-359 are
\* not reached
HttpAppendEvent ==
    /\ hpc = "append"
    /\ reply' = ErrorReply("TypeError")
    /\ hpc' = "done"
    /\ UNCHANGED <<args_vars, run_vars, store, appended, wpc, received, sent,
                   logfailed, lastop>>

ServerNext ==
    \/ WsReceive
    \/ WsDisconnect
    \/ WsLoad
    \/ WsRun
    \/ WsAppendEvent
    \/ WsLog
    \/ WsSend
    \/ HttpRequest
    \/ HttpLoad
    \/ HttpRun
    \/ HttpAppendEvent

ServerSpec == StoreInit /\ [][ServerNext]_vars

-----------------------------------------------------------------------------
(* C22 *)

\* the events of the connection that were answered
Answered == {sent[i].for : i \in 1..Len(sent)}

(* C22: once the handler is back at reading the connection or has closed it,
   every event whose log write failed has had its decision sent *)
C22_LogFailureStillDelivers ==
    WsQuiet => logfailed \subseteq Answered

\* the database insert is only queued by log_adaptation: nothing it does later
\* reaches the handler, and a decision whose log line was written is sent
LogWrittenIsDelivered ==
    (wpc = "receive" /\ received # <<>>) => Len(received) \in Answered

-----------------------------------------------------------------------------
(* C27 *)

\* how often the stored history of u holds event e, in either form an
\* endpoint stores it
Occurrences(u, e) ==
    Cardinality({i \in 1..Len(HistoryOf(u)) :
                    HistoryOf(u)[i] \in {e, model_dump_json(e)}})

(* C27: when POST /context has answered an event of a user with a stored
   profile whose run returned a decision, the answer is that decision and the
   stored history of the user holds the event exactly once *)
C27_ContextReturnsAndAppends ==
    (hpc = "done" /\ Stored(event.user_id) /\ result.status = "returned") =>
        /\ reply = [status |-> "ok", adaptations |-> result.adaptations]
        /\ Occurrences(event.user_id, event) = 1

\* POST /context never answers with a decision and never writes the store
ContextAlwaysFails ==
    /\ hpc = "done" => reply.status = "error"
    /\ \A u \in Users : Stored(u) => \A i \in 1..Len(HistoryOf(u)) :
          HistoryOf(u)[i].text.timestamp # 0

-----------------------------------------------------------------------------
(* C28 *)

(* C28: on the connection the i-th message sent answers the i-th event
   received and carries the decision of its run; an event is read only when
   every event before it has been answered; an iteration that ends without
   sending closes the socket; and once the socket is closed nothing more is
   read, processed, stored or sent *)
C28_Lockstep ==
    /\ [](\A i \in 1..Len(sent) :
            i <= Len(received) /\ sent[i].for = received[i].timestamp)
    /\ [](Len(sent) <= Len(received) /\ Len(received) <= Len(sent) + 1)
    /\ [](wpc = "receive" => Len(sent) = Len(received))
    /\ [][sent' # sent =>
            /\ wpc = "send"
            /\ result.status = "returned"
            /\ sent' = Append(sent, [adaptations |-> result.adaptations,
                                     for |-> Len(received)])]_vars
    /\ [][received' # received => Len(sent) = Len(received)]_vars
    /\ [][(wpc \in InIteration /\ wpc' \notin InIteration /\ sent' = sent)
            => wpc' = "closed"]_vars
    /\ [][wpc = "closed" =>
            /\ wpc' = "closed"
            /\ received' = received
            /\ sent' = sent
            /\ store' = store]_vars

\* two events were answered in turn, the run of the third raised, and the
\* socket is closed with the third unanswered
C28_Witness ==
    /\ wpc = "closed"
    /\ Len(received) = 3
    /\ Len(sent) = 2
    /\ sent[1].for = 1 /\ sent[2].for = 2
    /\ result.status = "raised"

-----------------------------------------------------------------------------
(* C29 *)

Range(h) == {h[i] : i \in 1..Len(h)}

\* the events of the connection before the k-th that are of the same user
Earlier(k) == {j \in 1..(k - 1) : received[j].user_id = received[k].user_id}

\* the last of them
Previous(k) == CHOOSE j \in Earlier(k) : \A i \in Earlier(k) : i <= j

\* the handler holds the snapshot of the event it is processing
HoldsSnapshot == wpc \in {"run", "append", "log", "send"}

\* the snapshot of the event being processed does not hold that event
SnapshotExcludesOwnEvent ==
    HoldsSnapshot => model_dump_json(event) \notin Range(history)

\* the store is written only by the append of the event being processed, once
\* its run has returned a decision and before the decision is sent
AppendedBetweenDecisionAndSend ==
    store' # store =>
        /\ wpc = "append"
        /\ result.status = "returned"
        /\ Len(sent) = Len(received) - 1
        /\ store' = [store EXCEPT ![event.user_id].interaction_history =
                        Push(@, model_dump_json(event), AppendCap)]
        /\ Len(sent') = Len(sent)

\* the snapshot of an event holds, as its newest entry, the event of the same
\* user that the connection processed before it
SnapshotHoldsPrevious ==
    (HoldsSnapshot /\ Earlier(Len(received)) # {}) =>
        /\ history # <<>>
        /\ Last(history) = model_dump_json(received[Previous(Len(received))])

(* C29, as stated: the snapshot of an event never holds that event, the event is
   appended after its decision is computed and before it is sent, and the next
   event of the user has it in its snapshot *)
C29_EventInNextSnapshot ==
    /\ []SnapshotExcludesOwnEvent
    /\ [][AppendedBetweenDecisionAndSend]_vars
    /\ []SnapshotHoldsPrevious

(* C29, amended: the same, where the next event of the user has the event in
   its snapshot when the user has a stored profile *)
C29_EventInNextSnapshotIfStored ==
    /\ []SnapshotExcludesOwnEvent
    /\ [][AppendedBetweenDecisionAndSend]_vars
    /\ []((HoldsSnapshot /\ Stored(event.user_id)) => SnapshotHoldsPrevious)

\* the second event of u1 is being processed with the first in its snapshot,
\* and is not yet stored itself
C29_Witness ==
    /\ wpc = "append"
    /\ Len(received) = 2
    /\ received[1].user_id = "u1" /\ received[2].user_id = "u1"
    /\ history = <<model_dump_json(received[1])>>
    /\ HistoryOf("u1") = history

-----------------------------------------------------------------------------
(* C30 *)

(* C30: while the connection processes an event of a user without a stored
   profile, the orchestrator's profile is the default profile of that user,
   with empty history and no accessibility flag; no step of that processing
   changes the store; and a user who had no document never gets one *)
C30_NoProfileLeavesStore ==
    /\ []((HoldsSnapshot /\ ~Stored(event.user_id)) =>
            /\ profile = DefaultProfile(event.user_id)
            /\ profile.accessibility_needs.flags = {}
            /\ history = <<>>)
    /\ [][(wpc \in InIteration /\ ~Stored(event.user_id)) =>
            (store' = store /\ appended' = appended)]_vars
    /\ [](\A u \in Users : InitialStore[u] = NoDocument => ~Stored(u))

\* the second event of u2 has been decided and passed append_event: its
\* snapshot was empty again and the store is as it was set up
C30_Witness ==
    /\ wpc = "send"
    /\ Len(received) = 2
    /\ received[1].user_id = "u2" /\ received[2].user_id = "u2"
    /\ Len(sent) = 1
    /\ history = <<>>
    /\ profile = DefaultProfile("u2")
    /\ store = InitialStore

====
